---------------------------- MODULE Spec2Model ----------------------------
(***************************************************************************)
(* Model of sasutils/cli/sas_sd_snic_alias.py: one invocation of the       *)
(* sas_sd_snic_alias command on a sysfs tree.                              *)
(*                                                                         *)
(* Character strings of the program (device names, attribute texts,        *)
(* nicknames, the alias) are sequences of one-character strings, so that   *)
(* rstrip, int() and str.format are computed character by character.       *)
(* Opaque identifiers (SAS addresses, sg names, exception class names)     *)
(* are TLA+ strings.                                                       *)
(***************************************************************************)
EXTENDS Integers, Sequences, FiniteSets, TLC

(***************************************************************************)
(* Bounds of the model                                                     *)
(***************************************************************************)
\* largest number of nodes under /sys/class/enclosure
MaxEncl == 2
\* longest command-line name in the rstrip specification
MaxLen == 4
\* largest bay number in the formatting specification
MaxBay == 120

(***************************************************************************)
(* Strings                                                                 *)
(***************************************************************************)
DigitChars == <<"0", "1", "2", "3", "4", "5", "6", "7", "8", "9">>

IsDigit(c) == \E k \in 1..10 : DigitChars[k] = c

DigitVal(c) == (CHOOSE k \in 1..10 : DigitChars[k] = c) - 1

\* str.rstrip('0123456789')
RECURSIVE RStripDigits(_)
RStripDigitsFirstOnly(s) ==
    IF s # <<>> /\ IsDigit(s[Len(s)]) THEN SubSeq(s, 1, Len(s) - 1) ELSE s
RStripDigits(s) ==
    IF s # <<>> /\ IsDigit(s[Len(s)])
    THEN RStripDigits(SubSeq(s, 1, Len(s) - 1))
    ELSE s

\* value of a non-empty run of decimal digits
RECURSIVE DigitsValue(_)
DigitsValue(s) ==
    IF s = <<>> THEN 0
    ELSE 10 * DigitsValue(SubSeq(s, 1, Len(s) - 1)) + DigitVal(s[Len(s)])

AllDigits(s) == \A k \in 1..Len(s) : IsDigit(s[k])

\* int(text) on an attribute text: an optional sign followed by at least one
\* decimal digit.  <<n>> is the integer, <<>> is ValueError.
ParseIntDefaultZero(s) ==
    IF s # <<>> /\ AllDigits(s) THEN <<DigitsValue(s)>> ELSE <<0>>
ParseInt(s) ==
    LET signed == s # <<>> /\ s[1] \in {"+", "-"}
        body   == IF signed THEN SubSeq(s, 2, Len(s)) ELSE s
    IN  IF body = <<>> \/ ~AllDigits(body) THEN <<>>
        ELSE IF signed /\ s[1] = "-" THEN <<0 - DigitsValue(body)>>
        ELSE <<DigitsValue(body)>>

\* decimal digits of a natural number, most significant first
RECURSIVE NatDigits(_)
NatDigits(n) ==
    IF n < 10 THEN <<DigitChars[n + 1]>>
    ELSE NatDigits(n \div 10) \o <<DigitChars[(n % 10) + 1]>>

\* the '{:02d}' replacement field: sign-aware zero padding to width 2
Format02dNoPad(n) ==
    IF n < 0 THEN <<"-">> \o NatDigits(0 - n) ELSE NatDigits(n)
Format02d(n) ==
    IF n < 0 THEN <<"-">> \o NatDigits(0 - n)
    ELSE IF n < 10 THEN <<"0">> \o NatDigits(n)
    ELSE NatDigits(n)

\* ALIAS_FORMAT.format(nickname=snic, bay_identifier=bay)
ALIAS_FORMAT(nickname, bay_identifier) ==
    nickname \o <<"-", "b", "a", "y">> \o Format02d(bay_identifier)

NO_SNIC == <<"_", "n", "o", "_", "s", "n", "i", "c">>

\* ses_get_snic_nickname(ses_sg) or '%s_no_snic' % blkdev.name
\* r is the resolver's result: [some |-> FALSE] is None; a falsy value
\* (None or the empty string) selects the right operand of "or".
SnicOrDefault(r, name) ==
    IF r.some /\ r.val # <<>> THEN r.val ELSE name \o NO_SNIC


(***************************************************************************)
(* The sysfs tree and the other inputs of one invocation                   *)
(***************************************************************************)
SDB == <<"s", "d", "b">>

\* sys.argv[1:]: no argument, a whole disk, a partition, two arguments
Argvs == {<<>>, <<SDB>>, <<SDB \o <<"1">>>>, <<SDB, SDB>>}

\* SAS addresses of enclosures, and one enclosure identifier of no enclosure
Addrs == {"a1", "a2"}
DevIds == Addrs \cup {"a3"}
\* the enclosure_identifier attribute of an end device that has none
Unreadable == "unreadable"
Sgs == {"sg1", "sg2"}

\* a node of /sys/class/enclosure: readable (its device has a SAS address and
\* an sg name) or malformed (building its EnclosureDevice raises)
BadEncl == [ok |-> FALSE, sas_address |-> "", sg |-> ""]
EnclNodes ==
    {[ok |-> TRUE, sas_address |-> a, sg |-> g] : a \in Addrs, g \in Sgs}
        \cup {BadEncl}
EnclLists == UNION {[1..n -> EnclNodes] : n \in 0..MaxEncl}

\* the 'enclosure_device' link of the block device: absent, leading to an
\* enclosure with an sg name, or present with a broken chain behind it
NoAssoc == [kind |-> "absent", sg |-> ""]
Assocs ==
    {NoAssoc, [kind |-> "broken", sg |-> ""]}
        \cup {[kind |-> "ok", sg |-> g] : g \in Sgs}

\* the bay_identifier attribute: missing, or a text
NoBay == [present |-> FALSE, text |-> <<>>]
BayTexts == {<<"7">>, <<"1", "2">>, <<"1", "0", "0">>, <<"1", "a">>, <<>>}
BayAttrs == {NoBay} \cup {[present |-> TRUE, text |-> t] : t \in BayTexts}

\* /sys/block/<name>/device with its end device, or no such node
NoBlock ==
    [present |-> FALSE, name |-> <<>>, assoc |-> NoAssoc,
     enclosure_identifier |-> "a3", bay_identifier |-> NoBay]
BlockNodes ==
    {NoBlock} \cup
    {[present |-> TRUE, name |-> SDB, assoc |-> a,
      enclosure_identifier |-> e, bay_identifier |-> b] :
        a \in Assocs, e \in DevIds \cup {Unreadable}, b \in BayAttrs}

\* an intact 'enclosure_device' link leads to a readable enclosure of the class
LinkConsistent(l, d) ==
    d.assoc.kind = "ok" => \E k \in 1..Len(l) : l[k].ok /\ l[k].sg = d.assoc.sg

Trees ==
    {t \in [enclosure : EnclLists, block : BlockNodes] :
        LinkConsistent(t.enclosure, t.block)}

\* results of ses_get_snic_nickname: None, or a string
None == [some |-> FALSE, val |-> <<>>]
SnicResults == {None, [some |-> TRUE, val |-> <<>>],
                [some |-> TRUE, val |-> <<"e", "1">>]}

\* exceptions a failing sysfs access raises
LibErrors == {"KeyError", "AttributeError"}

(***************************************************************************)
(* State                                                                   *)
(***************************************************************************)
VARIABLES
    argv,        \* sys.argv[1:]
    tree,        \* the sysfs tree (read only)
    pc,          \* position in main
    ip,          \* position in the body of sas_sd_snic_alias
    i,           \* next node of the enclosure enumeration
    enclosures,  \* the dict sas_address -> sg name of the EnclosureDevice
    blkname,     \* blkdev.name
    ses_sg,      \* ses_sg, "" while unbound
    bay,         \* bay: <<>> while unbound, else <<n>>
    snic,        \* snic
    result,      \* result in main
    exc,         \* the exception in flight, "none" if none
    path,        \* the enclosure resolution paths taken, in order
    calls,       \* the calls of ses_get_snic_nickname: argument and result
    stdout,      \* lines printed to standard output
    stderr,      \* messages written to standard error
    exit         \* exit status, -1 while running

vars == <<argv, tree, pc, ip, i, enclosures, blkname, ses_sg, bay, snic,
          result, exc, path, calls, stdout, stderr, exit>>

inputs == <<argv, tree>>
locals == <<i, enclosures, blkname, ses_sg, bay, snic, path, calls>>
output == <<result, stdout, stderr, exit>>

\* the statements of sas_sd_snic_alias in program order
StmtsBayFirst == <<"preload", "blkdev", "bay", "ses_sg", "snic", "return">>
Stmts == <<"preload", "blkdev", "ses_sg", "bay", "snic", "return">>

Pos(stmt) == CHOOSE k \in 1..Len(Stmts) : Stmts[k] = stmt

At(stmt) == pc = "call" /\ Stmts[ip] = stmt

Msg(kind, arg) == [kind |-> kind, arg |-> arg]

Fresh ==
    /\ pc = "main" /\ ip = 1 /\ i = 1
    /\ enclosures = <<>>
    /\ blkname = <<>> /\ ses_sg = "" /\ bay = <<>> /\ snic = <<>>
    /\ result = <<>> /\ exc = "none"
    /\ path = <<>> /\ calls = <<>>
    /\ stdout = <<>> /\ stderr = <<>> /\ exit = -1

Init ==
    /\ argv \in Argvs
    /\ tree \in Trees
    /\ Fresh

(***************************************************************************)
(* main                                                                    *)
(***************************************************************************)
\* lines 85-87: wrong argument count
MainUsage ==
    /\ pc = "main" /\ Len(argv) # 1
    /\ stderr' = Append(stderr, Msg("usage", <<>>))
    /\ exit' = 1
    /\ pc' = "done"
    /\ UNCHANGED <<inputs, locals, ip, result, exc, stdout>>

\* lines 88-89: enter sas_sd_snic_alias
MainCall ==
    /\ pc = "main" /\ Len(argv) = 1
    /\ pc' = "call"
    /\ UNCHANGED <<inputs, locals, ip, output, exc>>

\* lines 90-91: print the result if it is truthy, then fall off main
MainPrint ==
    /\ pc = "returned"
    /\ stdout' = IF result # <<>> THEN Append(stdout, result) ELSE stdout
    /\ exit' = 0
    /\ pc' = "done"
    /\ UNCHANGED <<inputs, locals, ip, result, exc, stderr>>

\* lines 92-94: KeyError is reported and the exit status is 1
MainKeyErrorExitZero ==
    /\ pc = "raised" /\ exc = "KeyError"
    /\ stderr' = Append(stderr, Msg("notfound", <<>>))
    /\ exit' = 0
    /\ pc' = "done"
    /\ UNCHANGED <<inputs, locals, ip, result, exc, stdout>>
MainKeyError ==
    /\ pc = "raised" /\ exc = "KeyError"
    /\ stderr' = Append(stderr, Msg("notfound", <<>>))
    /\ exit' = 1
    /\ pc' = "done"
    /\ UNCHANGED <<inputs, locals, ip, result, exc, stdout>>

\* any other exception leaves main: the interpreter prints the traceback
\* to standard error and the exit status is 1
Uncaught ==
    /\ pc = "raised" /\ exc # "KeyError"
    /\ stderr' = Append(stderr, Msg("traceback", <<>>))
    /\ exit' = 1
    /\ pc' = "done"
    /\ UNCHANGED <<inputs, locals, ip, result, exc, stdout>>

(***************************************************************************)
(* sas_sd_snic_alias                                                       *)
(***************************************************************************)
Raise(k) == exc' = k /\ pc' = "raised"

\* enclosures[key] = value
DictSetKeepFirst(d, key, value) ==
    [a \in DOMAIN d \cup {key} |-> IF a \in DOMAIN d THEN d[a] ELSE value]
DictSet(d, key, value) ==
    [a \in DOMAIN d \cup {key} |-> IF a = key THEN value ELSE d[a]]

\* lines 50-52, one iteration: build the EnclosureDevice of the next node and
\* store it under its SAS address; nothing catches what a malformed node raises
PreloadNode ==
    /\ At("preload") /\ i <= Len(tree.enclosure)
    /\ LET encl == tree.enclosure[i] IN
        IF encl.ok
        THEN /\ enclosures' = DictSet(enclosures, encl.sas_address, encl.sg)
             /\ i' = i + 1
             /\ UNCHANGED <<pc, exc>>
        ELSE /\ \E k \in LibErrors : Raise(k)
             /\ UNCHANGED <<i, enclosures>>
    /\ UNCHANGED <<inputs, ip, blkname, ses_sg, bay, snic, path, calls, output>>

\* line 50: the enumeration is exhausted
PreloadDone ==
    /\ At("preload") /\ i > Len(tree.enclosure)
    /\ ip' = ip + 1
    /\ UNCHANGED <<inputs, pc, locals, output, exc>>

\* lines 56-57: the block node of the name without its trailing digits, its
\* device and its SAS end device
BlkDev ==
    /\ At("blkdev")
    /\ LET name == RStripDigits(argv[1]) IN
        IF tree.block.present /\ tree.block.name = name
        THEN /\ blkname' = name
             /\ ip' = ip + 1
             /\ UNCHANGED <<pc, exc>>
        ELSE /\ \E k \in LibErrors : Raise(k)
             /\ UNCHANGED <<blkname, ip>>
    /\ UNCHANGED <<inputs, i, enclosures, ses_sg, bay, snic, path, calls, output>>

\* line 59: blkdev.array_device is truthy when the 'enclosure_device' link exists
HasArrayDeviceOnlyIfIntact(dev) == dev.assoc.kind = "ok"
HasArrayDevice(dev) == dev.assoc.kind # "absent"

\* lines 60-62: the link is present; follow it to the enclosure's sg name
SesSgPrimary ==
    /\ At("ses_sg") /\ HasArrayDevice(tree.block)
    /\ path' = Append(path, "primary")
    /\ IF tree.block.assoc.kind = "ok"
       THEN /\ ses_sg' = tree.block.assoc.sg
            /\ ip' = ip + 1
            /\ UNCHANGED <<pc, exc>>
       ELSE /\ \E k \in LibErrors : Raise(k)
            /\ UNCHANGED <<ses_sg, ip>>
    /\ UNCHANGED <<inputs, i, enclosures, blkname, bay, snic, calls, output>>

\* lines 63-72: the link is absent; look the enclosure identifier up in the
\* dict, and on KeyError log the warning and raise it again
SesSgFallbackSwallow ==
    /\ At("ses_sg") /\ ~HasArrayDevice(tree.block)
    /\ path' = Append(path, "fallback")
    /\ ses_sg' = IF tree.block.enclosure_identifier \in DOMAIN enclosures
                 THEN enclosures[tree.block.enclosure_identifier] ELSE "sg0"
    /\ ip' = ip + 1
    /\ UNCHANGED <<inputs, pc, exc, i, enclosures, blkname, bay, snic, calls,
                   output>>
SesSgFallback ==
    /\ At("ses_sg") /\ ~HasArrayDevice(tree.block)
    /\ LET id == tree.block.enclosure_identifier IN
        IF id = Unreadable
        THEN /\ \E k \in LibErrors :
                    /\ Raise(k)
                    /\ stderr' = IF k = "KeyError"
                                 THEN Append(stderr, Msg("warning", blkname))
                                 ELSE stderr
             /\ UNCHANGED <<ses_sg, ip, path>>
        ELSE IF id \in DOMAIN enclosures
        THEN /\ path' = Append(path, "fallback")
             /\ ses_sg' = enclosures[id]
             /\ ip' = ip + 1
             /\ UNCHANGED <<pc, exc, stderr>>
        ELSE /\ path' = Append(path, "fallback")
             /\ stderr' = Append(stderr, Msg("warning", blkname))
             /\ Raise("KeyError")
             /\ UNCHANGED <<ses_sg, ip>>
    /\ UNCHANGED <<inputs, i, enclosures, blkname, bay, snic, calls, result,
                   stdout, exit>>

\* line 75: bay = int(sasdev.attrs.bay_identifier)
Bay ==
    /\ At("bay")
    /\ LET attr == tree.block.bay_identifier IN
        IF ~attr.present
        THEN /\ \E k \in LibErrors : Raise(k)
             /\ UNCHANGED <<bay, ip>>
        ELSE IF ParseInt(attr.text) = <<>>
        THEN /\ Raise("ValueError")
             /\ UNCHANGED <<bay, ip>>
        ELSE /\ bay' = ParseInt(attr.text)
             /\ ip' = ip + 1
             /\ UNCHANGED <<pc, exc>>
    /\ UNCHANGED <<inputs, i, enclosures, blkname, ses_sg, snic, path, calls,
                   output>>

\* line 78: query the nickname of ses_sg, substitute the default if falsy
SnicRawArg ==
    /\ At("snic")
    /\ \E r \in SnicResults :
        /\ snic' = SnicOrDefault(r, argv[1])
        /\ calls' = Append(calls, [sg |-> ses_sg, ret |-> r])
    /\ ip' = ip + 1
    /\ UNCHANGED <<inputs, pc, exc, i, enclosures, blkname, ses_sg, bay, path,
                   output>>
Snic ==
    /\ At("snic")
    /\ \E r \in SnicResults :
        /\ snic' = SnicOrDefault(r, blkname)
        /\ calls' = Append(calls, [sg |-> ses_sg, ret |-> r])
    /\ ip' = ip + 1
    /\ UNCHANGED <<inputs, pc, exc, i, enclosures, blkname, ses_sg, bay, path,
                   output>>

\* line 80: return the formatted alias to main
Return ==
    /\ At("return")
    /\ result' = ALIAS_FORMAT(snic, bay[1])
    /\ pc' = "returned"
    /\ UNCHANGED <<inputs, ip, locals, exc, stdout, stderr, exit>>

Next ==
    \/ MainUsage
    \/ MainCall
    \/ PreloadNode
    \/ PreloadDone
    \/ BlkDev
    \/ SesSgPrimary
    \/ SesSgFallback
    \/ Bay
    \/ Snic
    \/ Return
    \/ MainPrint
    \/ MainKeyError
    \/ Uncaught

Spec == Init /\ [][Next]_vars

\* main runs to its end: no step waits on anything
FairSpec == Spec /\ WF_vars(Next)

(***************************************************************************)
(* Whole-disk name derivation on its own: line 56 on every short name,     *)
(* with a block directory that holds one of the name's prefixes or nothing *)
(***************************************************************************)
StripChars == {"s", "d", "1", "2"}
StripNames == UNION {[1..n -> StripChars] : n \in 0..MaxLen}

BlockNamed(n, text) ==
    [present |-> TRUE, name |-> n, assoc |-> [kind |-> "ok", sg |-> "sg1"],
     enclosure_identifier |-> "a1",
     bay_identifier |-> [present |-> TRUE, text |-> text]]

InitStrip ==
    /\ \E name \in StripNames :
        /\ argv = <<name>>
        /\ \E d \in {NoBlock} \cup
                    {BlockNamed(SubSeq(name, 1, k), <<"7">>) : k \in 1..Len(name)} :
              tree = [enclosure |-> <<>>, block |-> d]
    /\ pc = "call" /\ ip = Pos("blkdev") /\ i = 1
    /\ enclosures = <<>>
    /\ blkname = <<>> /\ ses_sg = "" /\ bay = <<>> /\ snic = <<>>
    /\ result = <<>> /\ exc = "none"
    /\ path = <<>> /\ calls = <<>>
    /\ stdout = <<>> /\ stderr = <<>> /\ exit = -1

NextStrip ==
    \/ BlkDev
    \/ MainKeyError
    \/ Uncaught

SpecStrip == InitStrip /\ [][NextStrip]_vars

(***************************************************************************)
(* Alias formatting on its own: lines 75-80 and 90-91 for every bay        *)
(* number up to MaxBay, entered with the enclosure already resolved        *)
(***************************************************************************)
InitFormat ==
    /\ argv \in {<<SDB>>, <<SDB \o <<"1">>>>}
    /\ \E n \in 0..MaxBay :
        tree = [enclosure |-> <<>>, block |-> BlockNamed(SDB, NatDigits(n))]
    /\ pc = "call" /\ ip = Pos("bay") /\ i = 1
    /\ enclosures = <<>>
    /\ blkname = SDB /\ ses_sg = "sg1" /\ bay = <<>> /\ snic = <<>>
    /\ result = <<>> /\ exc = "none"
    /\ path = <<"primary">> /\ calls = <<>>
    /\ stdout = <<>> /\ stderr = <<>> /\ exit = -1

NextFormat ==
    \/ Bay
    \/ Snic
    \/ Return
    \/ MainPrint

SpecFormat == InitFormat /\ [][NextFormat]_vars

(***************************************************************************)
(* Vocabulary of the properties                                            *)
(***************************************************************************)
Dev == tree.block
Done == pc = "done"
\* the argument count was right, so the resolution was attempted
Ran == Len(argv) = 1
\* the loop of lines 50-52 ran to its end: enclosures is the EnclosureIndex
IndexBuilt == pc # "main" /\ ip > Pos("preload")
\* lines 56-57 found the block device and its end device
BlockResolved == pc # "main" /\ ip > Pos("blkdev")
LinkAbsent == Dev.present /\ Dev.assoc.kind = "absent"
LinkPresent == Dev.present /\ Dev.assoc.kind # "absent"
HasEnclosureId == Dev.enclosure_identifier \in DevIds

DecimalDigits == {"0", "1", "2", "3", "4", "5", "6", "7", "8", "9"}

\* an integer literal: decimal digits, at least one, after an optional sign
IntLiteral(t) ==
    \E k \in 0..1 :
        /\ Len(t) > k
        /\ k = 1 => t[1] \in {"+", "-"}
        /\ \A j \in (k + 1)..Len(t) : t[j] \in DecimalDigits
ValidBay == Dev.bay_identifier.present /\ IntLiteral(Dev.bay_identifier.text)

\* the two decimal digits of a number of 0..99
TwoDigits(n) == <<DigitChars[(n \div 10) + 1], DigitChars[(n % 10) + 1]>>
\* a canonical decimal text (no sign, no leading zero) padded to two digits
PadText(t) == IF Len(t) = 1 THEN <<"0">> \o t ELSE t

BAY == <<"-", "b", "a", "y">>

Range(f) == {f[k] : k \in DOMAIN f}

Healthy == {k \in 1..Len(tree.enclosure) : tree.enclosure[k].ok}
\* the sg name of the enclosure enumerated last under SAS address id
LastSg(id) ==
    LET ks == {k \in Healthy : tree.enclosure[k].sas_address = id}
    IN  tree.enclosure[CHOOSE k \in ks : \A j \in ks : j <= k].sg

\* the lookup of line 66 missed: resolution ended as "not an array device"
NotInIndex ==
    /\ Done /\ Ran /\ IndexBuilt /\ BlockResolved
    /\ LinkAbsent /\ HasEnclosureId
    /\ Dev.enclosure_identifier \notin DOMAIN enclosures
InIndex ==
    /\ Done /\ Ran /\ IndexBuilt /\ BlockResolved
    /\ LinkAbsent /\ HasEnclosureId
    /\ Dev.enclosure_identifier \in DOMAIN enclosures

(***************************************************************************)
(* C1                                                                      *)
(***************************************************************************)
\* C1: when some enclosure node is malformed and the requested device sits
\* behind a healthy enclosure (by its link, or by an enclosure identifier
\* that is the SAS address of a healthy node) and has an integer bay, the
\* malformed node is skipped: the dict holds every healthy enclosure and the
\* alias is printed with exit status 0.
C1_PartialFailureTolerated ==
    ( /\ Done /\ Ran
      /\ \E k \in 1..Len(tree.enclosure) : ~tree.enclosure[k].ok
      /\ Dev.present
      /\ \/ /\ Dev.assoc.kind = "ok"
            /\ \E k \in Healthy : tree.enclosure[k].sg = Dev.assoc.sg
         \/ /\ Dev.assoc.kind = "absent"
            /\ \E k \in Healthy :
                  tree.enclosure[k].sas_address = Dev.enclosure_identifier
      /\ ValidBay )
    => /\ \A k \in Healthy : tree.enclosure[k].sas_address \in DOMAIN enclosures
       /\ exit = 0
       /\ stdout = <<result>> /\ result # <<>>

(***************************************************************************)
(* C2                                                                      *)
(***************************************************************************)
\* C2: at most one of the two paths is attempted; with the link present the
\* dict lookup is never performed, also when following the link fails (that
\* failure ends the run with exit status 1); the lookup is performed only
\* with the link absent.
C2_PathsExclusive ==
    /\ Len(path) <= 1
    /\ LinkPresent => "fallback" \notin Range(path)
    /\ "fallback" \in Range(path) => LinkAbsent
    /\ "primary" \in Range(path) => LinkPresent
    /\ (Done /\ BlockResolved /\ IndexBuilt /\ Dev.assoc.kind = "broken")
         => path = <<"primary">> /\ exit = 1 /\ stdout = <<>>

C2_Witness ==
    /\ Done /\ Dev.assoc.kind = "broken" /\ path = <<"primary">> /\ exit = 1
    /\ Dev.enclosure_identifier \in DOMAIN enclosures

(***************************************************************************)
(* C3                                                                      *)
(***************************************************************************)
\* the name passed to the nickname resolver is the reference name
C3_NamePassed ==
    calls # <<>> =>
        /\ Len(calls) = 1
        /\ LinkPresent => calls[1].sg = Dev.assoc.sg
        /\ LinkAbsent =>
            /\ Dev.enclosure_identifier \in DOMAIN enclosures
            /\ calls[1].sg = enclosures[Dev.enclosure_identifier]
            /\ calls[1].sg = LastSg(Dev.enclosure_identifier)

\* C3 as stated: the SES generic name passed to the nickname resolver is the
\* sg name reached through the link when the link is present, otherwise that
\* of the dict entry under the enclosure identifier; and without the link the
\* resolution succeeds whenever the identifier is a key of the dict.
C3_Original ==
    /\ C3_NamePassed
    /\ InIndex => exit = 0

\* C3 amended: as C3, but without the link the resolution succeeds whenever
\* the identifier is a key of the dict and the bay identifier is an integer
\* literal.
C3_Amended ==
    /\ C3_NamePassed
    /\ (InIndex /\ ValidBay) =>
          /\ exit = 0 /\ stdout = <<result>>
          /\ Len(calls) = 1

C3_Witness ==
    /\ Done /\ exit = 0 /\ path = <<"fallback">>
    /\ Len(tree.enclosure) = 2
    /\ tree.enclosure[1].sas_address = tree.enclosure[2].sas_address
    /\ tree.enclosure[1].sg # tree.enclosure[2].sg
    /\ calls[1].sg = tree.enclosure[2].sg

(***************************************************************************)
(* C4                                                                      *)
(***************************************************************************)
\* C4: with the link absent and the enclosure identifier not a key of the
\* dict, the warning naming the device is logged, the KeyError is raised
\* again, no alias is produced, main writes the not-found message to standard
\* error and the exit status is 1.
C4_NotAnArrayDevice ==
    NotInIndex =>
        /\ exc = "KeyError"
        /\ stderr = <<Msg("warning", Dev.name), Msg("notfound", <<>>)>>
        /\ result = <<>> /\ stdout = <<>> /\ calls = <<>>
        /\ exit = 1

C4_Witness ==
    /\ NotInIndex /\ exit = 1
    /\ Len(tree.enclosure) = 2 /\ DOMAIN enclosures = Addrs
    /\ Dev.enclosure_identifier = "a3"

(***************************************************************************)
(* C5                                                                      *)
(***************************************************************************)
\* C5 as stated: for every string the resolver returns and every bay of
\* 0..99 the alias is that string, "-bay" and the bay in two digits; the
\* "_no_snic" nickname is substituted only when the resolver returned None.
C5_Original ==
    (pc \in {"returned", "done"} /\ calls # <<>>) =>
        LET r == calls[1].ret
            n == bay[1]
        IN  /\ (r.some /\ 0 <= n /\ n <= 99)
                 => result = r.val \o BAY \o TwoDigits(n)
            /\ snic = blkname \o NO_SNIC => ~r.some

\* C5 amended: for every non-empty string the resolver returns and every bay
\* of 0..99 the alias is that string, "-bay" and the bay in two digits; the
\* "_no_snic" nickname is substituted only when the resolver returned None or
\* the empty string.
C5_Amended ==
    (pc \in {"returned", "done"} /\ calls # <<>>) =>
        LET r == calls[1].ret
            n == bay[1]
        IN  /\ (r.some /\ r.val # <<>> /\ 0 <= n /\ n <= 99)
                 => /\ result = r.val \o BAY \o TwoDigits(n)
                    /\ Done => stdout = <<result>>
            /\ snic = blkname \o NO_SNIC => (~r.some \/ r.val = <<>>)

C5_Witness ==
    /\ Done /\ bay = <<3>>
    /\ calls[1].ret = [some |-> TRUE, val |-> <<"e", "1">>]
    /\ stdout = <<<<"e", "1", "-", "b", "a", "y", "0", "3">>>>

(***************************************************************************)
(* C6                                                                      *)
(***************************************************************************)
\* C6: when the resolver returns None after the SES generic name and the
\* integer bay were resolved, the run succeeds and prints exactly the block
\* device's name, "_no_snic-bay" and the bay padded to two digits.
C6_AbsentNickname ==
    (Done /\ calls # <<>> /\ calls[1].ret = None) =>
        /\ exit = 0
        /\ stderr = <<>>
        /\ stdout = <<Dev.name \o NO_SNIC \o BAY
                        \o PadText(Dev.bay_identifier.text)>>

C6_Witness ==
    /\ Done /\ calls # <<>> /\ calls[1].ret = None
    /\ argv = <<SDB \o <<"1">>>>
    /\ stdout = <<SDB \o NO_SNIC \o <<"-", "b", "a", "y", "0", "7">>>>

(***************************************************************************)
(* C7                                                                      *)
(***************************************************************************)
\* C7: when the SES generic name resolved (by either path) and the bay
\* identifier is missing or is no integer literal, no bay is bound, no alias
\* is returned or printed, and the run ends with a message on standard error
\* and exit status 1.
C7_BayRequired ==
    (Done /\ ses_sg # "" /\ ~ValidBay) =>
        /\ bay = <<>> /\ result = <<>> /\ calls = <<>>
        /\ stdout = <<>>
        /\ stderr # <<>>
        /\ exit = 1

C7_Witness ==
    /\ Done /\ ses_sg # "" /\ path = <<"fallback">>
    /\ Dev.bay_identifier = [present |-> TRUE, text |-> <<"1", "a">>]
    /\ exc = "ValueError" /\ exit = 1

(***************************************************************************)
(* C8                                                                      *)
(***************************************************************************)
Success == exit = 0 /\ stdout = <<result>> /\ result # <<>>
Failure == exit = 1 /\ stdout = <<>> /\ stderr # <<>>

C8_Outcome ==
    /\ Done => (Success \/ Failure)
    /\ ~(Success /\ Failure)
    /\ exit = 0 <=> stdout # <<>>
    /\ ~Done => exit = -1
    /\ (Done /\ (~Ran \/ exc # "none")) => Failure

\* C8: every invocation ends, and ends in exactly one of two outcomes: exit
\* status 0 with exactly the alias on standard output, or exit status 1 with
\* a message on standard error and nothing on standard output; the status is
\* 0 if and only if an alias was printed.
C8_OutcomeExclusive == []C8_Outcome /\ <>Done

C8_Witness ==
    /\ Done /\ Success
    /\ stdout = <<<<"e", "1", "-", "b", "a", "y", "1", "2">>>>

(***************************************************************************)
(* C9                                                                      *)
(***************************************************************************)
\* p is s without its maximal run of trailing decimal digits
IsStripOf(p, s) ==
    \E k \in 0..Len(s) :
        /\ p = SubSeq(s, 1, k)
        /\ \A j \in (k + 1)..Len(s) : s[j] \in DecimalDigits
        /\ k = 0 \/ s[k] \notin DecimalDigits

\* C9: the block node looked up is the input without its maximal run of
\* trailing digits and otherwise unchanged (the lookup succeeds exactly when
\* the block directory holds that name), and stripping the name found again
\* changes nothing.
C9_WholeDiskName ==
    /\ BlockResolved =>
          /\ blkname = Dev.name
          /\ IsStripOf(blkname, argv[1])
          /\ RStripDigits(blkname) = blkname
    /\ (pc \in {"raised", "done"} /\ Stmts[ip] = "blkdev") =>
          ~(Dev.present /\ IsStripOf(Dev.name, argv[1]))

C9_Witness ==
    /\ BlockResolved
    /\ argv = <<<<"s", "1", "d", "2">>>>
    /\ blkname = <<"s", "1", "d">>

(***************************************************************************)
(* C10                                                                     *)
(***************************************************************************)
\* C10: the bay identifier is read only after the SES generic name is bound:
\* with the link absent and the enclosure identifier not a key of the dict
\* the run ends in the not-an-array-device failure whatever the bay attribute
\* holds, and a failure of the bay statement occurs only with the SES generic
\* name bound.
C10_ErrorPrecedence ==
    /\ NotInIndex =>
          /\ exc = "KeyError" /\ Stmts[ip] = "ses_sg"
          /\ bay = <<>>
          /\ Msg("warning", Dev.name) \in Range(stderr)
    /\ (exc # "none" /\ Stmts[ip] = "bay") => ses_sg # ""
    /\ bay # <<>> => ses_sg # ""

C10_Witness ==
    /\ NotInIndex /\ ~ValidBay
    /\ exc = "KeyError" /\ stderr[Len(stderr)] = Msg("notfound", <<>>)

=============================================================================
